---- MODULE Spec2Model ----
(***************************************************************************)
(* testract: decoding of Bethesda archives (Morrowind BSA, Oblivion-style  *)
(* BSA, Fallout 4 BA2) into a name -> entry index, and extraction of the   *)
(* entries.  Bytes and characters are numbers (latin1_to_string maps a     *)
(* byte to the code point of the same value), strings and buffers are      *)
(* sequences of them.                                                      *)
(***************************************************************************)
EXTENDS Integers, Sequences, FiniteSets, TLC

\* ------------------------------------------------------------ bounds
\* Largest declared file count, record count and name count of an archive.
MaxFiles == 2
\* Number of extractions that run at the same time.
MaxThreads == 2
\* Largest length of a buffer handed to decompress_buffer on its own.
MaxBuffer == 5
\* Largest number of bytes left in a file that a string is read from.
MaxStream == 3
\* Largest number of bytes left in a file that a string block is read from.
MaxBlock == 5
\* Length in bytes of the archive file on disk.
DiskLen == 64

\* --------------------------------------------------------- characters
NUL == 0
DOT == 46
SEP == 47

None == [some |-> FALSE]
Some(x) == [some |-> TRUE, val |-> x]

Last(s) == s[Len(s)]
Front(s) == SubSeq(s, 1, Len(s) - 1)

RECURSIVE Split(_, _)
\* str::split: the pieces of s between the occurrences of c (always >= 1 piece)
Split(s, c) ==
    IF \A i \in 1..Len(s) : s[i] # c
    THEN <<s>>
    ELSE LET i == CHOOSE k \in 1..Len(s) : s[k] = c /\ \A j \in 1..(k - 1) : s[j] # c
         IN  <<SubSeq(s, 1, i - 1)>> \o Split(SubSeq(s, i + 1, Len(s)), c)

\* a slip: the empty pieces are skipped
SplitTerminator_SkipEmpty(s, c) ==
    SelectSeq(Split(s, c), LAMBDA piece : piece # <<>>)

\* str::split_terminator: as split, but a trailing empty piece is skipped
SplitTerminator(s, c) ==
    LET pieces == Split(s, c)
    IN  IF Last(pieces) = <<>> THEN Front(pieces) ELSE pieces

\* ------------------------------------------------------------- paths
\* std::path::Path::components on a Unix path: empty pieces and "." pieces are
\* skipped, except a leading "." (CurDir); a leading separator is the RootDir.
Components(p) ==
    LET pieces == Split(p, SEP)
        hasRoot == Len(p) > 0 /\ p[1] = SEP
        Comp(i) == IF pieces[i] = <<DOT, DOT>> THEN [kind |-> "ParentDir", name |-> <<>>]
                   ELSE IF pieces[i] = <<DOT>> THEN [kind |-> "CurDir", name |-> <<>>]
                   ELSE [kind |-> "Normal", name |-> pieces[i]]
        Keep(i) == /\ pieces[i] # <<>>
                   /\ (pieces[i] = <<DOT>> => i = 1)
        idx == {i \in 1..Len(pieces) : Keep(i)}
        RECURSIVE Build(_)
        Build(i) == IF i > Len(pieces) THEN <<>>
                    ELSE (IF i \in idx THEN <<Comp(i)>> ELSE <<>>) \o Build(i + 1)
    IN  (IF hasRoot THEN <<[kind |-> "RootDir", name |-> <<>>]>> ELSE <<>>) \o Build(1)

\* Path::file_name: the last component, if it is a normal one
FileNameOf(p) ==
    LET comps == Components(p)
    IN  IF comps = <<>> \/ Last(comps).kind # "Normal" THEN None
        ELSE Some(Last(comps).name)

\* Path::extension: None without a file name, without a '.', or for a name
\* that starts with its only '.'; else what follows the last '.'
Extension(p) ==
    LET fn == FileNameOf(p)
    IN  IF ~fn.some THEN None
        ELSE LET f == fn.val
                 dots == {i \in 1..Len(f) : f[i] = DOT}
             IN  IF dots = {} THEN None
                 ELSE LET i == CHOOSE k \in dots : \A j \in dots : j <= k
                      IN  IF i = 1 THEN None
                          ELSE Some(SubSeq(f, i + 1, Len(f)))

\* Path::join (PathBuf::push): an absolute argument replaces the path; else it
\* is appended, after a separator unless the path is empty or ends in one
Join(folder, name) ==
    IF Len(name) > 0 /\ name[1] = SEP THEN name
    ELSE IF folder = <<>> \/ Last(folder) = SEP THEN folder \o name
    ELSE folder \o <<SEP>> \o name

\* PathBuf's Eq and Hash compare the components
SameKey(p, q) == Components(p) = Components(q)


\* --------------------------------------------------- the file hashmap
\* FileMap<F>: HashMap<PathBuf, F>.  insert on a key already present (an equal
\* path) keeps the stored key and replaces its value.
HasKey(m, k) == \E q \in DOMAIN m : SameKey(q, k)

\* a slip: a key that is present keeps its entry
Insert_KeepsFirst(m, k, v) ==
    IF HasKey(m, k)
    THEN m
    ELSE [q \in (DOMAIN m) \cup {k} |-> IF q = k THEN v ELSE m[q]]

Insert(m, k, v) ==
    IF HasKey(m, k)
    THEN [m EXCEPT ![CHOOSE q \in DOMAIN m : SameKey(q, k)] = v]
    ELSE [q \in (DOMAIN m) \cup {k} |-> IF q = k THEN v ELSE m[q]]

Get(m, k) ==
    IF HasKey(m, k) THEN Some(m[CHOOSE q \in DOMAIN m : SameKey(q, k)]) ELSE None

RECURSIVE InsertAll(_, _)
\* the insertion loop over the zipped (name, record) pairs, in order
InsertAll(m, pairs) ==
    IF pairs = <<>> THEN m
    ELSE InsertAll(Insert(m, pairs[1].key, pairs[1].val), Tail(pairs))

Min(a, b) == IF a <= b THEN a ELSE b

\* a slip: the second list is paired from its end
Zip_Reversed(xs, ys) ==
    [i \in 1..Min(Len(xs), Len(ys)) |-> <<xs[i], ys[Min(Len(xs), Len(ys)) + 1 - i]>>]

\* Iterator::zip stops at the shorter of the two
Zip(xs, ys) == [i \in 1..Min(Len(xs), Len(ys)) |-> <<xs[i], ys[i]>>]

RECURSIVE Concat(_)
Concat(ss) == IF ss = <<>> THEN <<>> ELSE ss[1] \o Concat(Tail(ss))

\* ------------------------------------------------- numbers on disk
\* u8 arithmetic is modulo 256
U8 == 256

RECURSIVE LE(_, _)
\* byteorder's LittleEndian encoding of n in w bytes
LE(n, w) == IF w = 0 THEN <<>> ELSE <<n % 256>> \o LE(n \div 256, w - 1)

\* ------------------------------------------------------- the magics
\* "BSA\0", "\x00\x01\x00\x00" and "BTDX"
BSA_MAGIC == <<66, 83, 65, 0>>
MW_MAGIC == <<0, 1, 0, 0>>
BTDX_MAGIC == <<66, 84, 68, 88>>

\* ------------------------------------------------------ sample inputs
\* "a.n", "a.d" and "a"
NameSamples == {<<97, DOT, 110>>, <<97, DOT, 100>>, <<97>>}
\* "f" and "g"
FolderSamples == {<<102>>, <<103>>}
\* a first byte of the file that is no magic: "BSA1"
BadMagics == {<<66, 83, 65, 49>>}
\* the bytes of the file after the magic repeat this pattern
DiskPattern == <<1, 0, 2, 255, 7>>
SizeSamples == {0, 1, 3, 6}
OffsetSamples == {4, 5, 6, 7}

RECURSIVE SeqsUpTo(_, _)
\* the sequences over S of length 0..n
SeqsUpTo(S, n) ==
    IF n = 0 THEN {<<>>}
    ELSE LET shorter == SeqsUpTo(S, n - 1)
         IN  shorter \cup {Append(s, x) : s \in {t \in shorter : Len(t) = n - 1}, x \in S}

\* a block of NUL-terminated strings
StringBlock(names) == Concat([i \in 1..Len(names) |-> names[i] \o <<NUL>>])

\* ------------------------------------------------------ the disk image
\* The archive file.  Its metadata is held decoded, field by field, as the
\* parsers' field layouts read it; DiskByte gives the raw byte at an absolute
\* position, as extraction reads it.
DiskByte(d, p) ==
    IF p < 4 THEN d.magic[p + 1]
    ELSE DiskPattern[((p - 4) % Len(DiskPattern)) + 1]

\* Seek to off and read_exact n bytes: the bytes, or nothing at end of file
ReadAt(d, off, n) ==
    IF off + n > DiskLen THEN None
    ELSE Some([i \in 1..n |-> DiskByte(d, off + i - 1)])

\* ------------------------------------------------------ parse results
NoHeader == [version |-> "-"]
EmptyMap == <<>>

ParseOk(header, map) ==
    [status |-> "ok", error |-> "", header |-> header, file_hashmap |-> map]
\* Err(e): an error value returned to the caller
ParseErr(e) ==
    [status |-> "err", error |-> e, header |-> NoHeader, file_hashmap |-> EmptyMap]
\* a panic (unimplemented!, an index out of range): the caller is unwound
ParsePanic(e) ==
    [status |-> "panic", error |-> e, header |-> NoHeader, file_hashmap |-> EmptyMap]

\* TESReader::parse_bstring_block: read total_length bytes of region, split
\* them at the NUL terminators
ParseBstringBlock(region, total_length) ==
    IF total_length > Len(region) THEN None
    ELSE Some(SplitTerminator(SubSeq(region, 1, total_length), NUL))

\* TESReader::parse_bzstring on a string whose length prefix is Len(raw):
\* the first Len(raw) - 1 bytes; 0 - 1 overflows, or indexes out of range
ParseBzstring(raw) ==
    IF Len(raw) = 0 THEN None ELSE Some(Front(raw))

\* ------------------------------------------------- Family A: Morrowind
MW_SERIALIZED_HEADER_LEN == 8
MW_SERIALIZED_FILE_RECORD_LEN == 8

\* morrowind::create_file_hashmap
MWFileDataOffset(header) ==
    header.hash_offset + (8 * header.file_count) + MW_SERIALIZED_HEADER_LEN

\* the largest number of 31 bits.  A record's 32-bit offset field is held as
\* its bit 31 (offset_bit31) and its low 31 bits (offset).
U31_MAX == 2147483647

\* file_data_offset + file_record.offset in u32: the low 31 bits and bit 31
\* of the sum, and whether the sum has left the 32 bits
MWOffsetSum(header, file_record) ==
    LET room == U31_MAX - file_record.offset
    IN  IF MWFileDataOffset(header) > room
        THEN [low |-> (MWFileDataOffset(header) - room) - 1,
              bit31 |-> 1 - file_record.offset_bit31,
              overflow |-> file_record.offset_bit31 = 1]
        ELSE [low |-> MWFileDataOffset(header) + file_record.offset,
              bit31 |-> file_record.offset_bit31,
              overflow |-> FALSE]

\* the sum overflows: a panic in a build that checks overflow, and a sum
\* reduced modulo 2^32 in one that does not
MWOffsetOverflows(header, file_record) == MWOffsetSum(header, file_record).overflow

\* the BSAFile of a record (no sum of the archives here has bit 31 set)
MWBsaFile(header, file_record) ==
    [has_name |-> FALSE,
     compression |-> "None",
     size |-> file_record.size,
     offset |-> MWOffsetSum(header, file_record).low]

\* overflow_checks: the build checks integer overflow (as a debug build does)
MWCreateFileHashmap(header, file_records, file_names, overflow_checks) ==
    LET file_record_iter == Zip(file_records, file_names)
    IN  IF overflow_checks
           /\ \E i \in 1..Len(file_record_iter) :
                  MWOffsetOverflows(header, file_record_iter[i][1])
        THEN None
        ELSE Some(InsertAll(EmptyMap,
                      [i \in 1..Len(file_record_iter) |->
                          [key |-> file_record_iter[i][2],
                           val |-> MWBsaFile(header, file_record_iter[i][1])]]))

\* morrowind::parse_bsa on the metadata after the magic
\* The subtraction is one of usize: below zero it panics in a build that
\* checks overflow, and in one that does not it wraps to a length near the
\* top of usize, which the allocation of the buffer refuses with a panic.
MWParseBsa(meta, overflow_checks) ==
    LET header == [file_count |-> meta.file_count, hash_offset |-> meta.hash_offset]
        file_records == meta.records
        name_block_size == header.hash_offset - (12 * header.file_count)
        file_names == ParseBstringBlock(meta.name_block, name_block_size)
    IN  IF header.hash_offset < 12 * header.file_count
        THEN ParsePanic(IF overflow_checks THEN "attempt to subtract with overflow"
                        ELSE "capacity overflow")
        ELSE IF ~file_names.some THEN ParseErr("Failed to read file name block")
        ELSE LET file_hashmap == MWCreateFileHashmap(header, file_records,
                                                     file_names.val, overflow_checks)
             IN  IF ~file_hashmap.some THEN ParsePanic("attempt to add with overflow")
                 ELSE ParseOk([version |-> "MORROWIND",
                               archive_flags |-> 0,
                               file_flags |-> 0,
                               file_count |-> header.file_count],
                              file_hashmap.val)

\* a Morrowind archive: fc records of 8 bytes, then the block of names
MWMeta(fc, records, names) ==
    [family |-> "A",
     hash_offset |-> (12 * fc) + Len(StringBlock(names)),
     file_count |-> fc,
     records |-> records,
     name_block |-> StringBlock(names)]

\* archives of 0..MaxFiles records and names, the k-th record of size k at
\* k - 1; in some the data of the last record lies beyond the end of the file
MWLayouts ==
    {MWMeta(fc, [k \in 1..fc |->
                    [size |-> k, offset |-> IF far /\ k = fc THEN DiskLen ELSE k - 1,
                     offset_bit31 |-> 0]],
            names) :
        fc \in 0..MaxFiles, names \in SeqsUpTo(NameSamples, MaxFiles), far \in BOOLEAN}

\* archives of one record
MWSingles ==
    {MWMeta(1, <<[size |-> s, offset |-> o - 4, offset_bit31 |-> 0]>>, <<n>>) :
        s \in SizeSamples, o \in OffsetSamples, n \in {<<97, DOT, 110>>}}

\* archives of MaxFiles + 1 records whose first and last names are the same
MWCollisions ==
    {MWMeta(MaxFiles + 1,
            [k \in 1..(MaxFiles + 1) |-> [size |-> k, offset |-> k - 1, offset_bit31 |-> 0]],
            names) :
        names \in {ns \in SeqsUpTo(NameSamples, MaxFiles + 1) :
                      Len(ns) = MaxFiles + 1 /\ ns[1] = ns[Len(ns)]}}

\* archives of 1..MaxFiles records whose arithmetic leaves the range: the
\* offset of the last record is 2^32 - 1, or the hash_offset of the header
\* is below 12 * file_count
MWOutOfRange ==
    UNION {{MWMeta(fc, [k \in 1..fc |->
                          [size |-> k,
                           offset |-> IF k = fc THEN U31_MAX ELSE k - 1,
                           offset_bit31 |-> IF k = fc THEN 1 ELSE 0]],
                   names) :
               names \in {ns \in SeqsUpTo({<<97, DOT, 110>>, <<97>>}, MaxFiles) :
                             Len(ns) = fc}}
           \cup {[MWMeta(fc, [k \in 1..fc |->
                                 [size |-> k, offset |-> k - 1, offset_bit31 |-> 0]],
                          [k \in 1..fc |-> <<97>>])
                     EXCEPT !.hash_offset = h] : h \in {0, (12 * fc) - 1}} :
           fc \in 1..MaxFiles}

MWImages == MWLayouts \cup MWSingles \cup MWCollisions \cup MWOutOfRange

\* ------------------------------------------- Family B: Oblivion-style
\* ArchiveFlags bits
INCLUDE_FILE_NAMES == 2
COMPRESSED_ARCHIVE == 4
EMBED_FILE_NAMES == 256
\* all the bits ArchiveFlags defines; from_bits rejects any other bit
ARCHIVE_FLAGS_ALL == 2047

HasBit(n, bit) == (n \div bit) % 2 = 1

\* types::version_parser
VersionParser(raw) ==
    CASE raw = 103 -> Some("OBLIVION")
      [] raw = 104 -> Some("SKYRIM")
      [] raw = 105 -> Some("SKYRIMSE")
      [] OTHER -> None

\* types::parse_archive_flags
ParseArchiveFlags(raw) == IF raw > ARCHIVE_FLAGS_ALL THEN None ELSE Some(raw)

\* a slip: bit 31 of the size field overrides the compression as bit 30 does
OBFileRecord_Bit31Overrides(raw) ==
    [uses_default_compression |-> ~(raw.size.bit30 = 1 \/ raw.size.bit31 = 1),
     size |-> raw.size.low,
     offset |-> raw.offset]

\* one record of ob_file_records_parser.  The 32-bit size field is held as
\* its bit 31, its bit 30 and its low 30 bits.
OBFileRecord(raw) ==
    [uses_default_compression |-> ~(raw.size.bit30 = 1),
     size |-> raw.size.low,
     offset |-> raw.offset]

\* a slip: many0 in the place of many1
OBFileRecordsParser_Many0(raws) ==
    Some([i \in 1..Len(raws) |-> OBFileRecord(raws[i])])

\* ob_file_records_parser: many1, so no record is an error
OBFileRecordsParser(raws) ==
    IF Len(raws) = 0 THEN None
    ELSE Some([i \in 1..Len(raws) |-> OBFileRecord(raws[i])])

RECURSIVE ReadFileRecordBlocks(_)
\* oblivion::read_file_record_blocks: per folder its bzstring name, then its records
ReadFileRecordBlocks(folders) ==
    IF folders = <<>> THEN [status |-> "ok", val |-> <<>>]
    ELSE LET name == ParseBzstring(folders[1].name_raw)
             file_records == OBFileRecordsParser(folders[1].records)
         IN  IF ~name.some THEN [status |-> "panic", val |-> <<>>]
             ELSE IF ~file_records.some THEN [status |-> "err", val |-> <<>>]
             ELSE LET rest == ReadFileRecordBlocks(Tail(folders))
                  IN  IF rest.status # "ok" THEN rest
                      ELSE [status |-> "ok",
                            val |-> <<[name |-> name.val,
                                       file_records |-> file_records.val]>> \o rest.val]

\* a slip: the exception for Oblivion archives is left out
OBHasName_NoException(header) ==
    HasBit(header.archive_flags, EMBED_FILE_NAMES)

\* oblivion::create_file_hashmap, the body of its loop
OBHasName(header) ==
    HasBit(header.archive_flags, EMBED_FILE_NAMES) /\ header.version # "OBLIVION"

\* a slip: the per-record override is not applied
OBIsCompressed_NoOverride(header, file_record) ==
    HasBit(header.archive_flags, COMPRESSED_ARCHIVE)

OBIsCompressed(header, file_record) ==
    LET is_compressed == HasBit(header.archive_flags, COMPRESSED_ARCHIVE)
    IN  IF ~file_record.uses_default_compression THEN ~is_compressed ELSE is_compressed

\* a slip: Skyrim Special Edition is given the codec of its predecessors
OBCompression_AlwaysZlib(header, file_record) ==
    IF OBIsCompressed(header, file_record) THEN "Zlib" ELSE "None"

OBCompression(header, file_record) ==
    IF OBIsCompressed(header, file_record)
    THEN CASE header.version \in {"OBLIVION", "SKYRIM"} -> "Zlib"
           [] header.version = "SKYRIMSE" -> "Lz4"
           [] OTHER -> "None"
    ELSE "None"

OBBsaFile(header, file_record) ==
    [has_name |-> OBHasName(header),
     compression |-> OBCompression(header, file_record),
     size |-> file_record.size,
     offset |-> file_record.offset]

\* a slip: every record is given the name of the first folder
FolderFileIter_FirstFolder(folders) ==
    Concat([j \in 1..Len(folders) |->
              [i \in 1..Len(folders[j].file_records) |->
                  [folder_name |-> folders[1].name,
                   file_record |-> folders[j].file_records[i]]]])

\* folders.flat_map(|folder| repeat(folder.name).zip(folder.file_records))
FolderFileIter(folders) ==
    Concat([j \in 1..Len(folders) |->
              [i \in 1..Len(folders[j].file_records) |->
                  [folder_name |-> folders[j].name,
                   file_record |-> folders[j].file_records[i]]]])

OBCreateFileHashmap(header, folders, file_names) ==
    LET folder_file_name_iter == Zip(file_names, FolderFileIter(folders))
    IN  InsertAll(EmptyMap,
                  [i \in 1..Len(folder_file_name_iter) |->
                      [key |-> Join(folder_file_name_iter[i][2].folder_name,
                                    folder_file_name_iter[i][1]),
                       val |-> OBBsaFile(header, folder_file_name_iter[i][2].file_record)]])

\* oblivion::parse_bsa on the metadata after the magic
OBParseBsa(meta) ==
    LET version == VersionParser(meta.version)
        archive_flags == ParseArchiveFlags(meta.archive_flags)
    IN  IF ~version.some \/ ~archive_flags.some
        THEN ParseErr("Can't parse Oblivion style BSA header")
        ELSE
        LET header == [version |-> version.val,
                       archive_flags |-> archive_flags.val,
                       file_count |-> meta.file_count,
                       total_file_name_length |-> meta.total_file_name_length]
            folders == ReadFileRecordBlocks(meta.folders)
        IN  IF folders.status = "panic" THEN ParsePanic("Failed parsing a folder name")
            ELSE IF folders.status = "err" THEN ParseErr("Failed to read folder records")
            ELSE IF ~HasBit(header.archive_flags, INCLUDE_FILE_NAMES)
            THEN ParsePanic("BSA files without INCLUDE_FILE_NAMES are unsupported")
            ELSE
            LET file_names == ParseBstringBlock(meta.name_block,
                                                header.total_file_name_length)
            IN  IF ~file_names.some THEN ParseErr("Failed to read file name block")
                ELSE ParseOk([version |-> header.version,
                              archive_flags |-> header.archive_flags,
                              file_flags |-> 0,
                              file_count |-> header.file_count],
                             OBCreateFileHashmap(header, folders.val, file_names.val))

\* an Oblivion-style archive
OBMeta(version, flags, fc, folders, names) ==
    [family |-> "B",
     version |-> version,
     archive_flags |-> flags,
     file_count |-> fc,
     folders |-> folders,
     total_file_name_length |-> Len(StringBlock(names)),
     name_block |-> StringBlock(names)]

\* the version tags 0x67, 0x68, 0x69, and one that is none of them
VersionSamples == {103, 104, 105, 106}
\* every combination of the three flags the code reads, and an undefined bit
ArchiveFlagSamples ==
    {a + b + c : a \in {0, INCLUDE_FILE_NAMES}, b \in {0, COMPRESSED_ARCHIVE},
                 c \in {0, EMBED_FILE_NAMES}} \cup {INCLUDE_FILE_NAMES + 2048}

\* archives of one folder "f" holding one record
OBSingles ==
    {OBMeta(v, fl, 1,
            <<[name_raw |-> <<102, NUL>>,
               records |-> <<[size |-> [bit31 |-> b31, bit30 |-> b30, low |-> s],
                              offset |-> o]>>]>>,
            <<n>>) :
        v \in VersionSamples, fl \in ArchiveFlagSamples,
        b31 \in {0, 1}, b30 \in {0, 1}, s \in SizeSamples, o \in OffsetSamples,
        n \in {<<97, DOT, 110>>}}

Sum(counts) ==
    LET RECURSIVE S(_)
        S(i) == IF i = 0 THEN 0 ELSE counts[i] + S(i - 1)
    IN  S(Len(counts))

\* the folders of the given names and record counts; the k-th record of the
\* folder-major traversal has size 1 and offset 3 + k
OBFolders(names, counts) ==
    [j \in 1..Len(counts) |->
        [name_raw |-> names[j] \o <<NUL>>,
         records |-> [i \in 1..counts[j] |->
                         [size |-> [bit31 |-> 0, bit30 |-> 0, low |-> 1],
                          offset |-> 3 + Sum(SubSeq(counts, 1, j - 1)) + i]]]]

\* the record counts of the folders: every folder holds a record, or one holds none
FolderCounts ==
    {c \in SeqsUpTo(1..MaxFiles, MaxFiles) : Sum(c) <= MaxFiles} \cup {<<0>>, <<1, 0>>}

\* Skyrim archives with a name block, of up to MaxFiles records, named "a.n" or "a"
OBLayouts ==
    UNION {{OBMeta(104, INCLUDE_FILE_NAMES, Sum(counts), OBFolders(fnames, counts), names) :
               fnames \in {f \in SeqsUpTo(FolderSamples, MaxFiles + 1) : Len(f) = Len(counts)},
               names \in SeqsUpTo({<<97, DOT, 110>>, <<97>>}, MaxFiles)} :
           counts \in FolderCounts}

OBImages == OBSingles \cup OBLayouts

\* ------------------------------------------------ Family C: Fallout 4
\* the end-of-record marker 0xBAADF00D as its bytes on disk
SENTINEL == <<13, 240, 173, 186>>

\* ba2::types::version_parser and type_parser
BA2VersionParser(raw) == IF raw = 1 THEN Some("Fallout4") ELSE None

TypeParser(tag) ==
    CASE tag = "GNRL" -> Some("General")
      [] tag = "DX10" -> Some("Textures")
      [] OTHER -> None

BA2FileChunk(raw) ==
    [content_offset |-> raw.content_offset,
     compressed_size |-> raw.compressed_size,
     uncompressed_size |-> raw.uncompressed_size]

RECURSIVE Many1Prefix(_)
\* many1!(complete!(..)) over records that end in the sentinel: the records
\* before the first one that fails to parse
Many1Prefix(raws) ==
    IF raws = <<>> \/ raws[1].magic # SENTINEL THEN <<>>
    ELSE <<raws[1]>> \o Many1Prefix(Tail(raws))

\* fo4_general_files_parser: many1, so an error when the first record fails
Fo4GeneralFilesParser(raws) ==
    LET parsed == Many1Prefix(raws)
    IN  IF parsed = <<>> THEN None
        ELSE Some([i \in 1..Len(parsed) |->
                      [header |-> None, chunks |-> <<BA2FileChunk(parsed[i])>>]])

\* fo4_texture_chunks_parser
Fo4TextureChunksParser(raws) ==
    LET parsed == Many1Prefix(raws)
    IN  IF parsed = <<>> THEN None
        ELSE Some([i \in 1..Len(parsed) |-> BA2FileChunk(parsed[i])])

RECURSIVE Fo4TextureFiles(_)
\* parse_ba2, the loop over the texture headers and their chunks
Fo4TextureFiles(raws) ==
    IF raws = <<>> THEN Some(<<>>)
    ELSE LET tex_header == [num_chunks |-> Len(raws[1].chunks)]
             tex_chunks == Fo4TextureChunksParser(raws[1].chunks)
         IN  IF ~tex_chunks.some THEN None
             ELSE LET rest == Fo4TextureFiles(Tail(raws))
                  IN  IF ~rest.some THEN None
                      ELSE Some(<<[header |-> Some(tex_header),
                                   chunks |-> tex_chunks.val]>> \o rest.val)

\* fallout4::parse_ba2 on the metadata after the magic
ParseBa2(meta) ==
    LET version == BA2VersionParser(meta.version)
        file_type == TypeParser(meta.file_type)
    IN  IF ~version.some \/ ~file_type.some
        THEN ParseErr("Can't parse a Fallout 4 .ba2 header")
        ELSE IF Len(meta.names) < meta.file_count
        THEN ParseErr("Can't parse a Fallout 4 file path")
        ELSE
        LET header == [version |-> version.val,
                       file_type |-> file_type.val,
                       file_count |-> meta.file_count]
            name_vec == SubSeq(meta.names, 1, header.file_count)
            files == IF header.file_type = "General"
                     THEN Fo4GeneralFilesParser(meta.records)
                     ELSE Fo4TextureFiles(meta.records)
        IN  IF ~files.some THEN ParseErr("Failed to parse")
            ELSE LET file_iter == Zip(name_vec, files.val)
                 IN  ParseOk(header,
                             InsertAll(EmptyMap,
                                       [i \in 1..Len(file_iter) |->
                                           [key |-> file_iter[i][1],
                                            val |-> file_iter[i][2]]]))

\* a BA2 archive: the records are file_count general records, or file_count
\* textures with their chunks
BA2Meta(version, file_type, fc, names, records) ==
    [family |-> "C",
     version |-> version,
     file_type |-> file_type,
     file_count |-> fc,
     names |-> names,
     records |-> records]

ChunkRaw(o, c, u, magic) ==
    [content_offset |-> o, compressed_size |-> c, uncompressed_size |-> u,
     magic |-> magic]

\* the sentinel, and four bytes that are not it
MagicSamples == {SENTINEL, <<13, 240, 173, 187>>}

\* general archives of one record
BA2Singles ==
    {BA2Meta(1, "GNRL", 1, <<n>>, <<ChunkRaw(o, c, u, SENTINEL)>>) :
        o \in OffsetSamples, c \in SizeSamples, u \in SizeSamples,
        n \in {<<97, DOT, 110>>}}
    \cup
    {BA2Meta(v, t, 1, <<<<97, DOT, 110>>>>, <<ChunkRaw(4, 0, 1, SENTINEL)>>) :
        v \in {1, 2}, t \in {"GNRL", "XXXX"}}

\* general archives of 0..MaxFiles records and names; the k-th record holds
\* k bytes at offset 3 + k, uncompressed
BA2GeneralLayouts ==
    UNION {{BA2Meta(1, "GNRL", fc, names,
                    [k \in 1..fc |-> ChunkRaw(3 + k, 0, k, magics[k])]) :
               names \in SeqsUpTo(NameSamples, MaxFiles),
               magics \in {m \in SeqsUpTo(MagicSamples, MaxFiles) : Len(m) = fc}} :
           fc \in 0..MaxFiles}

\* texture archives of 0..MaxFiles textures of 0..MaxFiles chunks each, named
\* "a.d" or "a"
BA2TextureLayouts ==
    UNION {{BA2Meta(1, "DX10", Len(counts), names,
                    [k \in 1..Len(counts) |->
                        [chunks |-> [i \in 1..counts[k] |->
                                        ChunkRaw(3 + k, 0, i, SENTINEL)]]]) :
               names \in {ns \in SeqsUpTo({<<97, DOT, 100>>, <<97>>}, MaxFiles) :
                             Len(ns) = Len(counts)}} :
           counts \in SeqsUpTo(0..MaxFiles, MaxFiles)}

BA2Images == BA2Singles \cup BA2GeneralLayouts \cup BA2TextureLayouts

\* ---------------------------------------------------------- extraction
\* What a call of extract comes to.  status "ok": Ok(bytes); "codec": the
\* result of the codec on codec_in (Ok of the decoded bytes, or Err of a
\* corrupt stream); "err": Err(error); "panic": the call unwinds.  seeks and
\* reads count the calls on the cursor, pos is where they leave it.
Error(kind) == [kind |-> kind, key |-> <<>>]
NoError == Error("")

Outcome(status, error, bytes, codec, codec_in, io) ==
    [status |-> status, error |-> error, bytes |-> bytes, codec |-> codec,
     codec_in |-> codec_in, seeks |-> io.seeks, reads |-> io.reads, pos |-> io.pos]

\* the cursor after seek(offset) and read_exact(size)
SeekRead(pos, offset, size) ==
    [seeks |-> 1, reads |-> 1,
     pos |-> IF offset + size <= DiskLen THEN offset + size
             ELSE IF offset > DiskLen THEN offset ELSE DiskLen]
NoIO(pos) == [seeks |-> 0, reads |-> 0, pos |-> pos]

\* bsa::decompress_buffer
BsaDecompressBuffer(buffer, compression_type, io) ==
    IF Len(buffer) < 4
    THEN Outcome("panic", Error("split_at"), <<>>, "-", <<>>, io)
    ELSE IF compression_type = "NONE"
    THEN Outcome("ok", NoError, SubSeq(buffer, 5, Len(buffer)), "-", <<>>, io)
    ELSE Outcome("codec", NoError, <<>>, compression_type, buffer, io)

\* Compression::decompress_buffer
CompressionDecompressBuffer(compression, buffer, io) ==
    IF Len(buffer) < 4
    THEN Outcome("panic", Error("split_at"), <<>>, "-", <<>>, io)
    ELSE IF compression = "None"
    THEN Outcome("ok", NoError, SubSeq(buffer, 5, Len(buffer)), "-", <<>>, io)
    ELSE Outcome("codec", NoError, <<>>, compression, buffer, io)

\* (file_block[0] + 1) as usize: how many leading bytes hold the embedded
\* name.  Indexing an empty block panics; 255 + 1 overflows a u8, which
\* panics in a build with overflow checks and wraps to 0 in one without.
EmbeddedNameLen(file_block) ==
    IF Len(file_block) = 0 THEN {[panic |-> TRUE, len |-> 0]}
    ELSE IF file_block[1] + 1 >= U8
    THEN {[panic |-> TRUE, len |-> 0], [panic |-> FALSE, len |-> (file_block[1] + 1) % U8]}
    ELSE {[panic |-> FALSE, len |-> file_block[1] + 1]}

\* BSAFile's compressed flag: the entry is stored compressed
Compressed(file) == file.compression # "None"

\* has_name as BSA::extract_via_file computes it from the header
ExtractHasName(header) ==
    HasBit(header.archive_flags, EMBED_FILE_NAMES) /\ header.version # "OBLIVION"

\* a slip: Skyrim Special Edition is decoded with zlib
ExtractCompressionType_Zlib(header) ==
    CASE header.version \in {"OBLIVION", "SKYRIM", "SKYRIMSE"} -> "ZLIB"
      [] header.version = "MORROWIND" -> "NONE"

\* compression_type as BSA::extract_via_file computes it from the header
ExtractCompressionType(header) ==
    CASE header.version \in {"OBLIVION", "SKYRIM"} -> "ZLIB"
      [] header.version = "SKYRIMSE" -> "LZ4"
      [] header.version = "MORROWIND" -> "NONE"

\* BSA::extract_via_file: the outcomes the builds can produce
ExtractViaFile(d, header, file, pos) ==
    LET io == SeekRead(pos, file.offset, file.size)
        file_block == ReadAt(d, file.offset, file.size)
        has_name == ExtractHasName(header)
        compression_type == ExtractCompressionType(header)
        Rest(n) == SubSeq(file_block.val, n.len + 1, Len(file_block.val))
        SlicePanic == Outcome("panic", Error("index"), <<>>, "-", <<>>, io)
    IN  IF ~file_block.some
        THEN {Outcome("err", Error("io"), <<>>, "-", <<>>, io)}
        ELSE IF Compressed(file)
        THEN IF has_name
             THEN {IF n.panic \/ n.len > Len(file_block.val) THEN SlicePanic
                   ELSE BsaDecompressBuffer(Rest(n), compression_type, io) :
                      n \in EmbeddedNameLen(file_block.val)}
             ELSE {BsaDecompressBuffer(file_block.val, compression_type, io)}
        ELSE IF has_name
        THEN {IF n.panic \/ n.len > Len(file_block.val) THEN SlicePanic
              ELSE Outcome("ok", NoError, Rest(n), "-", <<>>, io) :
                 n \in EmbeddedNameLen(file_block.val)}
        ELSE {Outcome("ok", NoError, file_block.val, "-", <<>>, io)}

\* Extract for BA2File
BA2Extract(d, file, pos) ==
    IF file.header.some
    THEN {Outcome("panic", Error("unimplemented"), <<>>, "-", <<>>, NoIO(pos))}
    ELSE LET general_file == file.chunks[1]
             buffer_len == IF general_file.compressed_size = 0
                           THEN general_file.uncompressed_size
                           ELSE general_file.compressed_size
             io == SeekRead(pos, general_file.content_offset, buffer_len)
             stored == ReadAt(d, general_file.content_offset, buffer_len)
         IN  IF ~stored.some
             THEN {Outcome("err", Error("io"), <<>>, "-", <<>>, io)}
             ELSE LET file_block == <<0, 0, 0, 0>> \o stored.val
                                    \o LE(general_file.uncompressed_size, 8)
                  IN  IF general_file.compressed_size # 0
                      THEN {CompressionDecompressBuffer("Zlib", file_block, io)}
                      ELSE {Outcome("ok", NoError, file_block, "-", <<>>, io)}

\* a slip: a BSA entry is sought from where the cursor stands (SeekFrom::Current)
Extract_FromCursor(d, a, file, pos) ==
    IF a.kind = "ba2" THEN BA2Extract(d, file, pos)
    ELSE ExtractViaFile(d, a.header, [file EXCEPT !.offset = @ + pos], pos)

\* a slip: the seek is left out, the block is read where the cursor stands
Extract_NoSeek(d, a, file, pos) ==
    IF a.kind = "ba2"
    THEN IF file.header.some THEN BA2Extract(d, file, pos)
         ELSE BA2Extract(d, [file EXCEPT !.chunks[1].content_offset = pos], pos)
    ELSE ExtractViaFile(d, a.header, [file EXCEPT !.offset = pos], pos)

\* Extract::extract of the entry of either kind of archive
Extract(d, a, file, pos) ==
    IF a.kind = "ba2" THEN BA2Extract(d, file, pos)
    ELSE ExtractViaFile(d, a.header, file, pos)

\* a slip: the cursor is rewound before the key is looked up
ExtractByName_SeekFirst(d, a, file_path, pos) ==
    LET file_record == Get(a.file_hashmap, file_path)
    IN  IF ~file_record.some
        THEN {Outcome("err", [kind |-> "NotFound", key |-> file_path], <<>>, "-", <<>>,
                      [seeks |-> 1, reads |-> 0, pos |-> 0])}
        ELSE Extract(d, a, file_record.val, pos)

\* Archive::extract_by_name and BSA::extract_via_name
ExtractByName(d, a, file_path, pos) ==
    LET file_record == Get(a.file_hashmap, file_path)
    IN  IF ~file_record.some
        THEN {Outcome("err", [kind |-> "NotFound", key |-> file_path], <<>>, "-", <<>>,
                      NoIO(pos))}
        ELSE Extract(d, a, file_record.val, pos)

\* ------------------------------------------------ extension filtering
\* ExtensionSet::is_match
IsMatch(extension_set, file_extension) ==
    CASE extension_set.kind = "None" -> FALSE
      [] extension_set.kind = "All" -> TRUE
      [] extension_set.kind = "List" ->
            \E i \in 1..Len(extension_set.list) : extension_set.list[i] = file_extension

\* get_by_extension, the test that skips a key ("continue")
Skips(extension_set, file_name) ==
    /\ extension_set.kind # "All"
    /\ Extension(file_name).some
    /\ ~IsMatch(extension_set, Extension(file_name).val)

\* Archive::get_by_extension over the keys in the order the map iterates them
GetByExtension(keys, extension_set) ==
    IF extension_set.kind = "None" THEN <<>>
    ELSE SelectSeq(keys, LAMBDA file_name : ~Skips(extension_set, file_name))

\* the orders in which a HashMap may iterate its keys
KeyOrders(m) ==
    {o \in [1..Cardinality(DOMAIN m) -> DOMAIN m] :
        \A i, j \in DOMAIN o : i # j => o[i] # o[j]}

\* None, All, ["n"] and ["n", "d"]
FilterSamples ==
    {[kind |-> "None", list |-> <<>>], [kind |-> "All", list |-> <<>>],
     [kind |-> "List", list |-> <<<<110>>>>],
     [kind |-> "List", list |-> <<<<110>>, <<100>>>>]}
OutputDirSamples == {"", "out"}

Event(file_name, o, written) ==
    [key |-> file_name, status |-> o.status, seeks |-> o.seeks, reads |-> o.reads,
     written |-> written]

RECURSIVE ExtractLoop(_, _, _, _)
\* extract_by_extension, the loop from file_names[i] on with the cursor at
\* pos: the runs it can take.  A run ends at the first entry whose
\* extraction fails (or unwinds), whose codec rejects the stream, or whose
\* dump_to_file fails.
ExtractLoop(d, a, file_names, st) ==
    IF st.i > Len(file_names) THEN {[events |-> <<>>, result |-> "ok"]}
    ELSE UNION {
        IF o.status \in {"err", "panic"}
        THEN {[events |-> <<Event(file_names[st.i], o, FALSE)>>, result |-> o.status]}
        ELSE (IF o.status = "codec"
              THEN {[events |-> <<Event(file_names[st.i], o, FALSE)>>, result |-> "err"]}
              ELSE {})
             \cup {[events |-> <<Event(file_names[st.i], o, FALSE)>>, result |-> "err"]}
             \cup {[events |-> <<Event(file_names[st.i], o, TRUE)>> \o r.events,
                    result |-> r.result] :
                      r \in ExtractLoop(d, a, file_names, [i |-> st.i + 1, pos |-> o.pos])}
        : o \in ExtractByName(d, a, file_names[st.i], st.pos)}

\* a slip: the error of a failed entry is swallowed
ExtractByExtension_SwallowsError(d, a, keys, extension_set, output_dir) ==
    LET file_names == GetByExtension(keys, extension_set)
    IN  IF output_dir # "" /\ file_names # <<>>
        THEN {[extension_set |-> extension_set, file_names |-> file_names,
               opened |-> TRUE, events |-> r.events, result |-> "ok"] :
                 r \in ExtractLoop(d, a, file_names, [i |-> 1, pos |-> 0])}
        ELSE {[extension_set |-> extension_set, file_names |-> file_names,
               opened |-> FALSE, events |-> <<>>, result |-> "ok"]}

\* Archive::extract_by_extension: the runs it can take
ExtractByExtension(d, a, keys, extension_set, output_dir) ==
    LET file_names == GetByExtension(keys, extension_set)
    IN  IF output_dir # "" /\ file_names # <<>>
        THEN {[extension_set |-> extension_set, file_names |-> file_names,
               opened |-> TRUE, events |-> r.events, result |-> r.result] :
                 r \in ExtractLoop(d, a, file_names, [i |-> 1, pos |-> 0])}
        ELSE {[extension_set |-> extension_set, file_names |-> file_names,
               opened |-> FALSE, events |-> <<>>, result |-> "ok"]}

\* ----------------------------------------------------------- opening
\* BSA::from_file: what the builds can make of the file
BSAFromFile(d) ==
    CASE d.magic = BSA_MAGIC -> {OBParseBsa(d.meta)}
      [] d.magic = MW_MAGIC ->
            {MWParseBsa(d.meta, overflow_checks) : overflow_checks \in BOOLEAN}
      [] OTHER -> {ParsePanic("Unknown file id parsed")}

\* ba2::from_file: fo4_header_parser starts with the tag "BTDX"
BA2FromFile(d) ==
    IF d.magic # BTDX_MAGIC THEN ParseErr("Can't parse a Fallout 4 .ba2 header")
    ELSE ParseBa2(d.meta)

MagicOf(meta) ==
    CASE meta.family = "A" -> MW_MAGIC
      [] meta.family = "B" -> BSA_MAGIC
      [] meta.family = "C" -> BTDX_MAGIC

\* the archive files: the images of the three families under their magic,
\* and one of each under a magic that is none of the three
Disks ==
    {[magic |-> MagicOf(meta), meta |-> meta] :
        meta \in MWImages \cup OBImages \cup BA2Images}
    \cup {[magic |-> m, meta |-> meta] :
            m \in BadMagics,
            meta \in {MWMeta(0, <<>>, <<>>),
                      OBMeta(104, INCLUDE_FILE_NAMES, 0, <<>>, <<>>),
                      BA2Meta(1, "GNRL", 0, <<>>, <<>>)}}

\* -------------------------------------------------------- the program
VARIABLES
    disk,      \* the archive file
    archive,   \* what from_file came to: the Archive, an error or a panic
    ret,       \* the last call on the Archive and what it came to
    threads,   \* the extractions in flight, each at a step of extract
    readers    \* the position of each open cursor over the archive file

vars == <<disk, archive, ret, threads, readers>>

Unopened ==
    [kind |-> "-", path |-> "", status |-> "unopened", error |-> "", header |-> NoHeader,
     file_hashmap |-> EmptyMap]
Opened(kind, r) ==
    [kind |-> kind, path |-> "archive", status |-> r.status, error |-> r.error,
     header |-> r.header, file_hashmap |-> r.file_hashmap]
NoRet == [op |-> "-"]
Threads == 1..MaxThreads
Idle == [pc |-> "idle"]

Init ==
    /\ disk \in Disks
    /\ archive = Unopened
    /\ ret = NoRet
    /\ threads = [t \in Threads |-> Idle]
    /\ readers = [r \in Threads |-> 0]

\* BSA::from_file(path)
BsaFromFile ==
    /\ archive.status = "unopened"
    /\ \E r \in BSAFromFile(disk) : archive' = Opened("bsa", r)
    /\ UNCHANGED <<disk, ret, threads, readers>>

\* ba2::from_file(path)
Ba2FromFile ==
    /\ archive.status = "unopened"
    /\ archive' = Opened("ba2", BA2FromFile(disk))
    /\ UNCHANGED <<disk, ret, threads, readers>>

\* the keys a caller asks for: those of the map, the sample names, and "z"
ProbeKeys == (DOMAIN archive.file_hashmap) \cup NameSamples \cup {<<122>>}

\* where the caller's cursor stands: at 0 when it is newly opened
\* (TESReader::from_file), or where the previous extraction left it
CursorPositions ==
    {0} \cup (IF ret.op = "extract_by_name" THEN {ret.out.pos} ELSE {})

\* archive.extract_by_name(&mut reader, file_path)
ExtractByNameCall ==
    /\ archive.status = "ok"
    /\ \E file_path \in ProbeKeys, pos \in CursorPositions :
         \E o \in ExtractByName(disk, archive, file_path, pos) :
            ret' = [op |-> "extract_by_name", key |-> file_path, start |-> pos, out |-> o]
    /\ UNCHANGED <<disk, archive, threads, readers>>

\* archive.extract_by_extension(&extension_set, output_dir)
ExtractByExtensionCall ==
    /\ archive.status = "ok"
    /\ \E extension_set \in FilterSamples, output_dir \in OutputDirSamples,
          keys \in KeyOrders(archive.file_hashmap) :
         \E run \in ExtractByExtension(disk, archive, keys, extension_set, output_dir) :
            ret' = [op |-> "extract_by_extension", output_dir |-> output_dir,
                    keys |-> keys, run |-> run]
    /\ UNCHANGED <<disk, archive, threads, readers>>

Next ==
    \/ BsaFromFile
    \/ Ba2FromFile
    \/ ExtractByNameCall
    \/ ExtractByExtensionCall

Spec == Init /\ [][Next]_vars

\* ------------------------------------- extractions that run together
\* Each thread extracts an entry of one parsed Archive, a step at a time:
\* it opens a cursor, seeks, reads, and returns.

\* a slip: the threads are handed one cursor between them
ReaderOf_Shared(t) == 1

\* TESReader::from_file: each caller opens a cursor of its own
ReaderOf(t) == t

\* the entry as read_exact finds it with the cursor at pos
AtCursor(file, pos) ==
    IF archive.kind = "ba2"
    THEN IF file.header.some THEN file
         ELSE [file EXCEPT !.chunks[1].content_offset = pos]
    ELSE [file EXCEPT !.offset = pos]

\* the offset extract seeks to
SeekTarget(file) ==
    IF archive.kind = "ba2" THEN file.chunks[1].content_offset ELSE file.offset

\* what the caller sees of an extraction
Returned(o) ==
    [status |-> o.status, error |-> o.error, bytes |-> o.bytes, codec |-> o.codec,
     codec_in |-> o.codec_in]

\* archives of two or more entries, and one of compressed entries
ParDisks ==
    {d \in Disks :
        /\ d.magic \in {MW_MAGIC, BSA_MAGIC, BTDX_MAGIC}
        /\ d.meta.file_count >= 1
        /\ \/ d.meta.family = "A" /\ d.meta.file_count = MaxFiles
           \/ d.meta.family = "B" /\ Len(d.meta.folders) = MaxFiles
           \/ d.meta.family = "B" /\ d.meta.version = 105
                /\ d.meta.archive_flags = INCLUDE_FILE_NAMES + COMPRESSED_ARCHIVE
           \/ d.meta.family = "C" /\ d.meta.file_count = MaxFiles}

InitPar ==
    /\ disk \in ParDisks
    /\ archive \in {Opened(IF disk.magic = BTDX_MAGIC THEN "ba2" ELSE "bsa", r) :
                      r \in IF disk.magic = BTDX_MAGIC THEN {BA2FromFile(disk)}
                            ELSE BSAFromFile(disk)}
    /\ archive.status = "ok"
    /\ ret = NoRet
    /\ threads = [t \in Threads |-> Idle]
    /\ readers = [r \in Threads |-> 0]

\* let mut reader = TESReader::from_file(&path)?; archive.extract_by_name(..)
\* up to the lookup of the key
Begin(t) ==
    /\ threads[t].pc = "idle"
    /\ \E file_path \in DOMAIN archive.file_hashmap :
          LET file == Get(archive.file_hashmap, file_path).val
          IN  IF archive.kind = "ba2" /\ file.header.some
              THEN threads' = [threads EXCEPT ![t] =
                                  [pc |-> "done", key |-> file_path, file |-> file,
                                   overlapped |-> FALSE,
                                   out |-> Returned(CHOOSE o \in BA2Extract(disk, file, 0) : TRUE)]]
              ELSE threads' = [threads EXCEPT ![t] =
                                  [pc |-> "seek", key |-> file_path, file |-> file]]
    /\ readers' = [readers EXCEPT ![ReaderOf(t)] = 0]
    /\ UNCHANGED <<disk, archive, ret>>

\* reader.seek(SeekFrom::Start(offset))
SeekStep(t) ==
    /\ threads[t].pc = "seek"
    /\ readers' = [readers EXCEPT ![ReaderOf(t)] = SeekTarget(threads[t].file)]
    /\ threads' = [threads EXCEPT ![t].pc = "read"]
    /\ UNCHANGED <<disk, archive, ret>>

\* reader.read_exact(&mut file_block) where the cursor stands, and the rest
\* of extract on the block read; overlapped records that another thread
\* stood then between its seek and its read
ReadStep(t) ==
    /\ threads[t].pc = "read"
    /\ \E o \in Extract(disk, archive,
                         AtCursor(threads[t].file, readers[ReaderOf(t)]), 0) :
          /\ threads' = [threads EXCEPT ![t] =
                            [pc |-> "done", key |-> threads[t].key,
                             file |-> threads[t].file,
                             overlapped |-> \E u \in Threads \ {t} : threads[u].pc = "read",
                             out |-> Returned(o)]]
          /\ readers' = [readers EXCEPT ![ReaderOf(t)] = o.pos]
    /\ UNCHANGED <<disk, archive, ret>>

\* the caller takes the result and drops its cursor
Return(t) ==
    /\ threads[t].pc = "done"
    /\ threads' = [threads EXCEPT ![t] = Idle]
    /\ UNCHANGED <<disk, archive, ret, readers>>

NextPar ==
    \/ \E t \in Threads : Begin(t)
    \/ \E t \in Threads : SeekStep(t)
    \/ \E t \in Threads : ReadStep(t)
    \/ \E t \in Threads : Return(t)

SpecPar == InitPar /\ [][NextPar]_vars

\* ------------------------------------------- the codecs on their own
\* the buffers given to decompress_buffer: up to MaxBuffer bytes of 1 and 255
BufferSamples == SeqsUpTo({1, 255}, MaxBuffer)

InitCodec ==
    /\ disk = [magic |-> MW_MAGIC, meta |-> MWMeta(0, <<>>, <<>>)]
    /\ archive = Unopened
    /\ ret = NoRet
    /\ threads = [t \in Threads |-> Idle]
    /\ readers = [r \in Threads |-> 0]

\* bsa::decompress_buffer(&buffer, &compression_type)
BsaDecompressBufferCall ==
    \E buffer \in BufferSamples, compression_type \in {"NONE", "ZLIB", "LZ4"} :
        /\ ret' = [op |-> "decompress_buffer", passthrough |-> compression_type = "NONE",
                   buffer |-> buffer,
                   out |-> BsaDecompressBuffer(buffer, compression_type, NoIO(0))]
        /\ UNCHANGED <<disk, archive, threads, readers>>

\* compression.decompress_buffer(&buffer)
CompressionDecompressBufferCall ==
    \E buffer \in BufferSamples, compression \in {"None", "Zlib", "Lz4"} :
        /\ ret' = [op |-> "decompress_buffer", passthrough |-> compression = "None",
                   buffer |-> buffer,
                   out |-> CompressionDecompressBuffer(compression, buffer, NoIO(0))]
        /\ UNCHANGED <<disk, archive, threads, readers>>

NextCodec == BsaDecompressBufferCall \/ CompressionDecompressBufferCall

SpecCodec == InitCodec /\ [][NextCodec]_vars

\* ------------------------------------ the string readers on their own
\* A call reads from a cursor that stands before the bytes of stream; it
\* comes to Ok(val), Err or a panic, and has consumed some bytes of stream.
ReadOk(val, consumed) == [status |-> "ok", val |-> val, consumed |-> consumed]
ReadErr(consumed) == [status |-> "err", val |-> <<>>, consumed |-> consumed]
ReadPanic(consumed) == [status |-> "panic", val |-> <<>>, consumed |-> consumed]

\* TESReader::read_string_with_len_prefix: a length byte, then that many bytes
ReadStringWithLenPrefix(stream) ==
    IF Len(stream) = 0 THEN ReadErr(0)
    ELSE LET length == stream[1]
         IN  IF length > Len(stream) - 1 THEN ReadErr(Len(stream))
             ELSE ReadOk(SubSeq(stream, 2, 1 + length), 1 + length)

\* TESReader::parse_bzstring from the cursor
ParseBzstringAt(stream) ==
    LET string_buf == ReadStringWithLenPrefix(stream)
    IN  IF string_buf.status # "ok" THEN string_buf
        ELSE LET s == ParseBzstring(string_buf.val)
             IN  IF s.some THEN ReadOk(s.val, string_buf.consumed)
                 ELSE ReadPanic(string_buf.consumed)

\* TESReader::parse_bstring_block from the cursor
ParseBstringBlockAt(stream, total_length) ==
    LET bstrings == ParseBstringBlock(stream, total_length)
    IN  IF bstrings.some THEN ReadOk(bstrings.val, total_length)
        ELSE ReadErr(Len(stream))

\* what is left of the file: a length byte 0, 1 or 2, NULs and letters
StreamSamples == SeqsUpTo({0, 1, 2, 97}, MaxStream)
\* what is left of the file: NULs and the letter "a"
BlockSamples == SeqsUpTo({NUL, 97}, MaxBlock)

InitReader ==
    /\ disk = [magic |-> BSA_MAGIC, meta |-> OBMeta(104, INCLUDE_FILE_NAMES, 0, <<>>, <<>>)]
    /\ archive = Unopened
    /\ ret = NoRet
    /\ threads = [t \in Threads |-> Idle]
    /\ readers = [r \in Threads |-> 0]

\* reader.parse_bzstring()
ParseBzstringCall ==
    \E stream \in StreamSamples :
        /\ ret' = [op |-> "parse_bzstring", stream |-> stream,
                   out |-> ParseBzstringAt(stream)]
        /\ UNCHANGED <<disk, archive, threads, readers>>

\* reader.parse_bstring_block(total_length)
ParseBstringBlockCall ==
    \E stream \in BlockSamples :
        \E total_length \in 0..(Len(stream) + 1) :
            /\ ret' = [op |-> "parse_bstring_block", stream |-> stream,
                       total_length |-> total_length,
                       out |-> ParseBstringBlockAt(stream, total_length)]
            /\ UNCHANGED <<disk, archive, threads, readers>>

NextReader == ParseBzstringCall \/ ParseBstringBlockCall

SpecReader == InitReader /\ [][NextReader]_vars

\* ------------------------------------------------------------- claims
Range(f) == {f[i] : i \in DOMAIN f}
Map == archive.file_hashmap
Found == ret.op = "extract_by_name" /\ HasKey(Map, ret.key)
Entry == Get(Map, ret.key).val
\* the entry is a texture: it has a texture header and a list of chunks
IsChunked(e) == archive.kind = "ba2" /\ e.header.some

\* what the caller's from_file makes of the file
Parsed == IF archive.kind = "bsa" THEN BSAFromFile(disk) ELSE {BA2FromFile(disk)}

\* Family B as it lies on disk: the (key, record) pairs of the folder-major
\* traversal, and the last of them that has the key k
RawPairs ==
    LET flat == Concat([j \in 1..Len(disk.meta.folders) |->
                          [i \in 1..Len(disk.meta.folders[j].records) |->
                              [folder |-> Front(disk.meta.folders[j].name_raw),
                               raw |-> disk.meta.folders[j].records[i]]]])
        names == SplitTerminator(disk.meta.name_block, NUL)
    IN  [i \in 1..Min(Len(flat), Len(names)) |->
            [key |-> Join(flat[i].folder, names[i]), raw |-> flat[i].raw]]
RawRecordOf(k) ==
    LET idx == {i \in DOMAIN RawPairs : SameKey(RawPairs[i].key, k)}
    IN  RawPairs[CHOOSE i \in idx : \A j \in idx : j <= i].raw

IsFamilyB == archive.status = "ok" /\ archive.kind = "bsa" /\ disk.magic = BSA_MAGIC
IsFamilyA == archive.status = "ok" /\ archive.kind = "bsa" /\ disk.magic = MW_MAGIC
IsFamilyC == archive.status = "ok" /\ archive.kind = "ba2"

\* C1: the number of keys of a parsed archive's mapping equals the file count
\* its header declares, whatever the records and names decoded
C1_KeyCountIsDeclaredCount ==
    archive.status = "ok" => Cardinality(DOMAIN Map) = archive.header.file_count

\* C2: extract by a key that is not in the mapping returns NotFound naming
\* the key, neither seeks nor reads, and leaves the mapping as parsed
C2_MissingKeyIsNotFound ==
    (ret.op = "extract_by_name" /\ ~HasKey(Map, ret.key)) =>
        /\ ret.out.status = "err"
        /\ ret.out.error = [kind |-> "NotFound", key |-> ret.key]
        /\ ret.out.seeks = 0
        /\ ret.out.reads = 0
        /\ ret.out.pos = ret.start
        /\ \E r \in Parsed : Map = r.file_hashmap

C2_Witness ==
    /\ ret.op = "extract_by_name"
    /\ ~HasKey(Map, ret.key)
    /\ Map # EmptyMap
    /\ ret.start > 0

\* the keys whose extension is a member of the list
ListedKeys(list) ==
    {k \in DOMAIN Map : Extension(k).some /\ Extension(k).val \in Range(list)}

\* C3: filter None selects no key, All every key, a list exactly the keys
\* whose extension is in the list
C3_FilterSelectsExactlyTheMatches ==
    ret.op = "extract_by_extension" =>
        LET selected == Range(ret.run.file_names)
            filter == ret.run.extension_set
        IN  CASE filter.kind = "None" -> selected = {}
              [] filter.kind = "All" -> selected = DOMAIN Map
              [] filter.kind = "List" -> selected = ListedKeys(filter.list)

\* C4: in a batch extraction no seek or read is issued for a key that does
\* not match the filter, and filter None opens no cursor and reads nothing
C4_NoReadForNonMatchingKey ==
    ret.op = "extract_by_extension" =>
        LET filter == ret.run.extension_set
            matching == CASE filter.kind = "None" -> {}
                          [] filter.kind = "All" -> DOMAIN Map
                          [] filter.kind = "List" -> ListedKeys(filter.list)
        IN  /\ \A i \in DOMAIN ret.run.events :
                 (ret.run.events[i].seeks > 0 \/ ret.run.events[i].reads > 0)
                    => ret.run.events[i].key \in matching
            /\ filter.kind = "None" => (~ret.run.opened /\ ret.run.events = <<>>)

\* C5: a Family B entry whose record has bit 30 of the size field set is
\* compressed exactly when the archive's COMPRESSED_ARCHIVE flag is unset;
\* one whose bit is unset, exactly when the flag is set
C5_OverrideBitNegatesContainerFlag ==
    IsFamilyB =>
        \A k \in DOMAIN Map :
            LET flag == HasBit(disk.meta.archive_flags, COMPRESSED_ARCHIVE)
            IN  Compressed(Map[k]) =
                    (IF RawRecordOf(k).size.bit30 = 1 THEN ~flag ELSE flag)

C5_Witness ==
    /\ IsFamilyB
    /\ HasBit(disk.meta.archive_flags, COMPRESSED_ARCHIVE)
    /\ \E k \in DOMAIN Map : RawRecordOf(k).size.bit30 = 1 /\ ~Compressed(Map[k])

\* the codec the on-disk family and version call for
CodecOfDisk ==
    CASE disk.magic = MW_MAGIC -> "none"
      [] disk.magic = BSA_MAGIC /\ disk.meta.version \in {103, 104} -> "zlib"
      [] disk.magic = BSA_MAGIC /\ disk.meta.version = 105 -> "lz4"
      [] disk.magic = BTDX_MAGIC -> "zlib"
CodecName(c) ==
    CASE c \in {"Zlib", "ZLIB"} -> "zlib"
      [] c \in {"Lz4", "LZ4"} -> "lz4"
      [] OTHER -> "none"
\* the entry is effectively compressed
StoredCompressed(e) ==
    IF archive.kind = "ba2" THEN e.chunks[1].compressed_size # 0 ELSE Compressed(e)

\* C6: the codec of an effectively-compressed entry is that of its on-disk
\* family and version (none for Morrowind, zlib for 0x67, 0x68 and BA2, LZ4
\* for 0x69), in the index and at extraction; an entry that is not
\* effectively compressed gets no codec
C6_CodecIsThatOfTheFamily ==
    /\ (IsFamilyA \/ IsFamilyB) =>
          \A k \in DOMAIN Map :
              CodecName(Map[k].compression) =
                  (IF Compressed(Map[k]) THEN CodecOfDisk ELSE "none")
    /\ IsFamilyA => \A k \in DOMAIN Map : ~Compressed(Map[k])
    /\ (Found /\ ret.out.status \in {"ok", "codec"}) =>
          /\ (ret.out.status = "codec") = StoredCompressed(Entry)
          /\ CodecName(ret.out.codec) =
                 (IF StoredCompressed(Entry) THEN CodecOfDisk ELSE "none")

C6_Witness ==
    /\ IsFamilyB
    /\ disk.meta.version = 105
    /\ Found
    /\ ret.out.status = "codec"
    /\ ret.out.codec = "LZ4"

\* the size bytes of the entry at [offset, offset + size)
StoredBytes(e) ==
    IF archive.kind = "ba2"
    THEN ReadAt(disk, e.chunks[1].content_offset, e.chunks[1].uncompressed_size)
    ELSE ReadAt(disk, e.offset, e.size)
IsSuffix(s, t) == Len(s) <= Len(t) /\ s = SubSeq(t, Len(t) - Len(s) + 1, Len(t))

\* C7: extract of a flat entry that is not effectively compressed returns
\* exactly the size bytes at [offset, offset + size), less a leading
\* embedded name when the entry's embedded-name flag is set
C7_UncompressedEntryIsItsStoredBytes ==
    (Found /\ ~IsChunked(Entry) /\ ~StoredCompressed(Entry) /\ ret.out.status = "ok") =>
        IF archive.kind = "bsa" /\ Entry.has_name
        THEN IsSuffix(ret.out.bytes, StoredBytes(Entry).val)
        ELSE ret.out.bytes = StoredBytes(Entry).val

\* C8: extract of a BA2 general entry reads compressed_size bytes at the
\* offset (uncompressed_size bytes when that is 0), and hands the codec the
\* 4-byte little-endian uncompressed size followed by exactly those bytes
C8_CodecInputIsLengthThenStoredBytes ==
    (IsFamilyC /\ Found /\ ~IsChunked(Entry) /\ ret.out.status \in {"ok", "codec"}) =>
        LET chunk == Entry.chunks[1]
            n == IF chunk.compressed_size # 0 THEN chunk.compressed_size
                 ELSE chunk.uncompressed_size
        IN  /\ ret.out.reads = 1
            /\ ret.out.pos = chunk.content_offset + n
            /\ chunk.compressed_size # 0 =>
                  ret.out.codec_in =
                      LE(chunk.uncompressed_size, 4)
                      \o ReadAt(disk, chunk.content_offset, n).val

\* C9: extract of a chunked (texture) entry returns an UnsupportedFeature
\* error value: no bytes, no read of the cursor, no abnormal termination
C9_ChunkedEntryIsUnsupportedError ==
    (IsFamilyC /\ Found /\ IsChunked(Entry)) =>
        /\ ret.out.status = "err"
        /\ ret.out.error.kind = "UnsupportedFeature"
        /\ ret.out.seeks = 0
        /\ ret.out.reads = 0

\* C10: opening a file whose first 4 bytes are none of the three magics
\* returns a parse error to the caller, and constructs no Archive
C10_UnknownMagicIsParseError ==
    (archive.status # "unopened" /\ disk.magic \notin {BSA_MAGIC, MW_MAGIC, BTDX_MAGIC})
        => archive.status = "err"

\* every record of a Family C file ends in the sentinel
AllSentinels ==
    IF disk.meta.file_type = "DX10"
    THEN \A k \in DOMAIN disk.meta.records :
            \A i \in DOMAIN disk.meta.records[k].chunks :
                disk.meta.records[k].chunks[i].magic = SENTINEL
    ELSE \A k \in DOMAIN disk.meta.records : disk.meta.records[k].magic = SENTINEL

\* C11: when any record of a Family C archive, at any position, lacks the
\* end-of-record sentinel, the parse fails with an error and no Archive is
\* made; an Archive of the records before the bad one is never returned
C11_MissingSentinelFailsTheParse ==
    (archive.kind = "ba2" /\ disk.magic = BTDX_MAGIC /\ disk.meta.family = "C"
       /\ ~AllSentinels)
        => (archive.status = "err" /\ Map = EmptyMap)

\* C12: in a Family B archive the k-th name is paired with the k-th record
\* of the folder-major traversal, under the key folder(k).join(name k): the
\* keys of the mapping are those of the pairs, and each key holds the record
\* of the (last) pair that has it
C12_NamesPairWithRecordsInFolderOrder ==
    IsFamilyB =>
        /\ \A k \in DOMAIN RawPairs : HasKey(Map, RawPairs[k].key)
        /\ \A q \in DOMAIN Map :
              /\ \E k \in DOMAIN RawPairs : SameKey(RawPairs[k].key, q)
              /\ Map[q].offset = RawRecordOf(q).offset
              /\ Map[q].size = RawRecordOf(q).size.low

C12_Witness ==
    /\ IsFamilyB
    /\ Len(disk.meta.folders) = 2
    /\ Len(RawPairs) = 2
    /\ RawPairs[1].key = <<102, SEP, 97, DOT, 110>>
    /\ RawPairs[2].key = <<103, SEP, 97>>
    /\ Map[RawPairs[1].key].offset = 4
    /\ Map[RawPairs[2].key].offset = 5

\* Family A as it lies on disk: the position of the first byte of raw data
\* behind the magic, the header, the records, the name offsets, the name
\* block and the hashes
MWDataStart ==
    LET fc == disk.meta.file_count
    IN  Len(MW_MAGIC) + MW_SERIALIZED_HEADER_LEN
        + (MW_SERIALIZED_FILE_RECORD_LEN * fc) + (4 * fc)
        + (disk.meta.hash_offset - (12 * fc)) + (8 * fc)
\* the record paired with the key q: the last one whose name is q
MWRawRecordOf(q) ==
    LET names == SplitTerminator(disk.meta.name_block, NUL)
        idx == {i \in 1..Min(Len(names), Len(disk.meta.records)) : SameKey(names[i], q)}
    IN  disk.meta.records[CHOOSE i \in idx : \A j \in idx : j <= i]

\* C13: the offset of every Family A entry is the absolute position of its
\* data in the file: the position of the first raw-data byte plus the
\* record's on-disk offset
C13_MorrowindOffsetIsAbsolute ==
    IsFamilyA =>
        \A q \in DOMAIN Map : Map[q].offset = MWDataStart + MWRawRecordOf(q).offset

\* C14: parsing a Family B archive whose flags lack INCLUDE_FILE_NAMES
\* returns an error value (UnsupportedFeature) to the caller: no Archive is
\* made, no names are guessed, and the caller is not unwound
C14_NoNameBlockIsUnsupportedError ==
    (archive.kind = "bsa" /\ disk.magic = BSA_MAGIC /\ disk.meta.family = "B"
       /\ ~HasBit(disk.meta.archive_flags, INCLUDE_FILE_NAMES))
        => (archive.status = "err" /\ Map = EmptyMap)

\* C15: every failure of an extraction is an error value, never a crash:
\* extract of a flat entry ends in Ok(bytes) or Err whatever the file holds
C15_ExtractionNeverCrashes ==
    (Found /\ ~IsChunked(Entry)) => ret.out.status # "panic"

\* what extracting the key of the last call comes to after this step
ExtractedAgain == ExtractByName(disk', archive', ret.key, ret'.out.pos)

\* C16: extractions and batch extractions, failed or not, leave the
\* Archive's path, header and mapping as parsing made them; and an entry
\* that was extracted still extracts to the same bytes after the extraction
\* of another key has failed
C16_ArchiveIsReadOnly ==
    [][/\ archive.status # "unopened" => archive' = archive
       /\ (/\ Found
           /\ ret.out.status \in {"ok", "codec"}
           /\ ret'.op = "extract_by_name"
           /\ ~SameKey(ret'.key, ret.key)
           /\ ret'.out.status \in {"err", "panic"})
          => /\ \E o \in ExtractedAgain : o.status = ret.out.status
             /\ \A o \in ExtractedAgain :
                  o.status \in {"ok", "codec"}
                    => (o.bytes = ret.out.bytes /\ o.codec_in = ret.out.codec_in)]_vars

C16_Witness ==
    /\ ret.op = "extract_by_name"
    /\ HasKey(Map, ret.key)
    /\ ret.out.status = "err"
    /\ ret.start > 0
    /\ archive \in {Opened(archive.kind, r) : r \in Parsed}
    /\ \E q \in DOMAIN Map :
          /\ ~SameKey(q, ret.key)
          /\ \E o \in ExtractByName(disk, archive, q, 0) :
                o.status = "ok" /\ o.pos = ret.start

\* C17: extractions that interleave their seeks and reads, each on a cursor
\* of its own over the same file, each return what the extraction returns
\* when it runs alone
C17_InterleavedExtractionsAgree ==
    \A t \in Threads :
        threads[t].pc = "done" =>
            threads[t].out \in
                {Returned(o) : o \in ExtractByName(disk, archive, threads[t].key, 0)}

C17_Witness ==
    /\ threads[1].pc = "done"
    /\ threads[1].overlapped
    /\ threads[2].pc = "done"
    /\ ~SameKey(threads[1].key, threads[2].key)
    /\ threads[1].out.status = "ok"
    /\ threads[1].out.bytes # <<>>
    /\ threads[2].out.status = "ok"
    /\ threads[2].out.bytes # threads[1].out.bytes

\* C18: the passthrough codec returns its input buffer unchanged: the same
\* length and the same bytes, for every buffer
C18_PassthroughReturnsItsInput ==
    (ret.op = "decompress_buffer" /\ ret.passthrough)
        => (ret.out.status = "ok" /\ ret.out.bytes = ret.buffer)

\* the payload of an extraction: the bytes returned, or the bytes handed to
\* the codec
Payload == IF ret.out.status = "codec" THEN ret.out.codec_in ELSE ret.out.bytes
\* the effective embedded-name flag, from what the file holds
EmbedsNames ==
    /\ disk.magic = BSA_MAGIC
    /\ HasBit(disk.meta.archive_flags, EMBED_FILE_NAMES)
    /\ disk.meta.version # 103

\* C19: when the effective embedded-name flag is set, extraction removes
\* exactly 1 + L leading bytes of the stored block, L being its first byte,
\* for every L in 0..255, before the payload is returned or decoded
C19_EmbeddedNameStripsOnePlusL ==
    (Found /\ archive.kind = "bsa" /\ EmbedsNames /\ ret.out.status \in {"ok", "codec"}) =>
        LET block == StoredBytes(Entry).val
        IN  /\ 1 + block[1] <= Len(block)
            /\ Payload = SubSeq(block, 2 + block[1], Len(block))

\* C20: the effective embedded-name flag of an entry is set exactly when
\* the archive's EMBED_FILE_NAMES flag is set and the version is not
\* OBLIVION; it is unset for every OBLIVION and every Family A entry, and an
\* entry whose flag is unset is extracted with no bytes removed
C20_EmbeddedNameFlagExceptOblivion ==
    /\ IsFamilyB => \A q \in DOMAIN Map : Map[q].has_name = EmbedsNames
    /\ (IsFamilyB /\ disk.meta.version = 103) => \A q \in DOMAIN Map : ~Map[q].has_name
    /\ IsFamilyA => \A q \in DOMAIN Map : ~Map[q].has_name
    /\ (Found /\ archive.kind = "bsa" /\ ~EmbedsNames /\ ret.out.status \in {"ok", "codec"})
          => Payload = StoredBytes(Entry).val

C20_Witness ==
    /\ IsFamilyB
    /\ disk.meta.version = 103
    /\ HasBit(disk.meta.archive_flags, EMBED_FILE_NAMES)
    /\ Found
    /\ ~Entry.has_name
    /\ ret.out.status = "ok"
    /\ Len(ret.out.bytes) = 3

\* C21: reading a length-prefixed, NUL-terminated string of prefix n reads
\* n bytes and returns the first n - 1 of them when the last is a NUL; when
\* it is not, or when n = 0, the read is rejected with an error
C21_BzstringChecksItsTerminator ==
    (ret.op = "parse_bzstring" /\ ret.stream # <<>>
       /\ ret.stream[1] <= Len(ret.stream) - 1) =>
        LET n == ret.stream[1]
        IN  IF n > 0 /\ ret.stream[1 + n] = NUL
            THEN /\ ret.out.status = "ok"
                 /\ ret.out.consumed = 1 + n
                 /\ ret.out.val = SubSeq(ret.stream, 2, n)
            ELSE ret.out.status = "err"

\* the number of NUL bytes of s
Nuls(s) == Cardinality({i \in DOMAIN s : s[i] = NUL})
\* the bytes of the block that is read
Block == SubSeq(ret.stream, 1, ret.total_length)

\* C22: reading a block of total_length bytes that holds k NUL-terminated
\* strings, empty ones allowed anywhere, consumes total_length bytes and
\* returns the k strings in their order on disk
C22_StringBlockKeepsEveryString ==
    (ret.op = "parse_bstring_block" /\ ret.total_length <= Len(ret.stream)
       /\ (Block = <<>> \/ Last(Block) = NUL)) =>
        /\ ret.out.status = "ok"
        /\ ret.out.consumed = ret.total_length
        /\ Len(ret.out.val) = Nuls(Block)
        /\ \A i \in DOMAIN ret.out.val : Nuls(ret.out.val[i]) = 0
        /\ StringBlock(ret.out.val) = Block

C22_Witness ==
    /\ ret.op = "parse_bstring_block"
    /\ ret.stream = <<NUL, 97, NUL, NUL, 97>>
    /\ ret.total_length = 4
    /\ ret.out.val = <<<<>>, <<97>>, <<>>>>

\* C23: what an extraction returns does not depend on where the cursor
\* stood before the call: on a cursor that earlier extractions have moved it
\* returns what it returns on a freshly opened one
C23_ResultIndependentOfCursor ==
    ret.op = "extract_by_name" =>
        \E o \in ExtractByName(disk, archive, ret.key, 0) :
            /\ Returned(o) = Returned(ret.out)
            /\ Found => o.pos = ret.out.pos

C23_Witness ==
    /\ Found
    /\ ret.start > 0
    /\ ret.out.status = "ok"
    /\ ret.out.bytes # <<>>
    /\ ret.out.pos <= ret.start

\* the keys that match a filter
MatchingKeys(filter) ==
    CASE filter.kind = "None" -> {}
      [] filter.kind = "All" -> DOMAIN Map
      [] filter.kind = "List" -> ListedKeys(filter.list)
\* how often the batch visited the key k
Visits(k) == Cardinality({i \in DOMAIN ret.run.events : ret.run.events[i].key = k})
\* the visits are the selected keys in iteration order, up to the first
\* failure, each written but a failing last one
StopsAtFirstFailure ==
    LET events == ret.run.events
        file_names == ret.run.file_names
    IN  /\ Len(events) <= Len(file_names)
        /\ \A i \in DOMAIN events : events[i].key = file_names[i]
        /\ \A i, j \in DOMAIN events : i # j => events[i].key # events[j].key
        /\ ret.run.result = "ok" => \A i \in DOMAIN events : events[i].written
        /\ ret.run.result # "ok" =>
              /\ events # <<>>
              /\ ~Last(events).written
              /\ \A i \in 1..(Len(events) - 1) :
                    events[i].written /\ events[i].status \in {"ok", "codec"}

C25_ExtractionAgreesWithTheIndex ==
    /\ (archive.status = "ok" /\ archive.kind = "bsa") =>
          \A k \in DOMAIN Map :
             /\ ExtractHasName(archive.header) = Map[k].has_name
             /\ Compressed(Map[k]) =>
                   CodecName(ExtractCompressionType(archive.header))
                      = CodecName(Map[k].compression)
    /\ (archive.kind = "bsa" /\ Found /\ ret.out.status = "codec") =>
          /\ Compressed(Entry)
          /\ CodecName(ret.out.codec) = CodecName(Entry.compression)

C25_Witness ==
    /\ archive.kind = "bsa"
    /\ Found
    /\ ret.out.status = "codec"
    /\ Entry.compression = "Lz4"
    /\ Entry.has_name

\* the names a parsed archive decoded, in order
DecodedNames ==
    IF disk.meta.family = "C"
    THEN SubSeq(disk.meta.names, 1, disk.meta.file_count)
    ELSE SplitTerminator(disk.meta.name_block, NUL)
\* the records it decoded, in traversal order: each with the folder it lies
\* in and what tells it from the others, the offset field of the record (in
\* Family A, whose offsets are relative, its size field)
DecodedRecords ==
    CASE disk.meta.family = "A" ->
           [i \in DOMAIN disk.meta.records |->
               [folder |-> <<>>, offset |-> disk.meta.records[i].size]]
      [] disk.meta.family = "B" ->
           Concat([j \in 1..Len(disk.meta.folders) |->
                     [i \in 1..Len(disk.meta.folders[j].records) |->
                         [folder |-> Front(disk.meta.folders[j].name_raw),
                          offset |-> disk.meta.folders[j].records[i].offset]]])
      [] disk.meta.family = "C" /\ disk.meta.file_type = "DX10" ->
           [i \in DOMAIN disk.meta.records |->
               [folder |-> <<>>, offset |-> disk.meta.records[i].chunks[1].content_offset]]
      [] OTHER ->
           LET parsed == Many1Prefix(disk.meta.records)
           IN  [i \in DOMAIN parsed |->
                   [folder |-> <<>>, offset |-> parsed[i].content_offset]]
\* the pairs of the positional zip
PairCount == Min(Len(DecodedNames), Len(DecodedRecords))
PairKey(i) ==
    IF disk.meta.family = "B"
    THEN Join(DecodedRecords[i].folder, DecodedNames[i])
    ELSE DecodedNames[i]
\* the same of an entry of the mapping
EntryOffset(e) ==
    CASE archive.kind = "ba2" -> e.chunks[1].content_offset
      [] disk.meta.family = "A" -> e.size
      [] OTHER -> e.offset
IsParsedFamily ==
    \/ IsFamilyA /\ disk.meta.family = "A"
    \/ IsFamilyB /\ disk.meta.family = "B"
    \/ IsFamilyC /\ disk.meta.family = "C"

\* C26: of r decoded records and m decoded names the index holds the first
\* min(r, m) pairs and nothing else: every such pair's key is a key of the
\* mapping, every entry is the record of a pair at the position of its name,
\* and a surplus of records or of names is no error
C26_ZipStopsAtTheShorterList ==
    IsParsedFamily =>
        /\ \A i \in 1..PairCount : HasKey(Map, PairKey(i))
        /\ \A q \in DOMAIN Map :
              \E i \in 1..PairCount :
                 /\ SameKey(PairKey(i), q)
                 /\ EntryOffset(Map[q]) = DecodedRecords[i].offset
        /\ Cardinality(DOMAIN Map) <= PairCount

C26_Witness ==
    /\ IsParsedFamily
    /\ disk.meta.family = "B"
    /\ Len(DecodedRecords) = 2
    /\ Len(DecodedNames) = 1
    /\ Cardinality(DOMAIN Map) = 1
    /\ EntryOffset(Map[PairKey(1)]) = DecodedRecords[1].offset
    /\ DecodedRecords[2].offset # DecodedRecords[1].offset

\* the last pair that has the key q
LastPair(q) ==
    LET idx == {i \in 1..PairCount : SameKey(PairKey(i), q)}
    IN  CHOOSE i \in idx : \A j \in idx : j <= i

\* C27: the mapping holds one entry for each key, the record of the last
\* pair in traversal order that resolves to the key; a key that only one
\* pair resolves to holds the record at the position of its name
C27_LaterRecordWinsTheKey ==
    IsParsedFamily =>
        /\ \A q \in DOMAIN Map :
              /\ EntryOffset(Map[q]) = DecodedRecords[LastPair(q)].offset
              /\ \A p \in DOMAIN Map : SameKey(p, q) => p = q
        /\ Cardinality(DOMAIN Map)
              = Cardinality({LastPair(PairKey(i)) : i \in 1..PairCount})

C27_Witness ==
    /\ IsParsedFamily
    /\ PairCount = 3
    /\ SameKey(PairKey(1), PairKey(3))
    /\ ~SameKey(PairKey(1), PairKey(2))
    /\ Cardinality(DOMAIN Map) = 2
    /\ EntryOffset(Map[PairKey(1)]) = DecodedRecords[3].offset
    /\ EntryOffset(Map[PairKey(2)]) = DecodedRecords[2].offset
    /\ DecodedRecords[1].offset # DecodedRecords[3].offset

\* the file was opened as the family its magic names
OpenedFamily(f) ==
    /\ archive.status # "unopened"
    /\ disk.meta.family = f
    /\ CASE f = "A" -> archive.kind = "bsa" /\ disk.magic = MW_MAGIC
         [] f = "B" -> archive.kind = "bsa" /\ disk.magic = BSA_MAGIC
         [] f = "C" -> archive.kind = "ba2" /\ disk.magic = BTDX_MAGIC

\* C28: a Family B archive with a folder of no records, and a Family C
\* general archive of file count 0, fail to parse with an error value;
\* a Family A archive of file count 0 parses to an empty mapping
C28_EmptyRecordListIsAnErrorButInFamilyA ==
    /\ (OpenedFamily("B")
          /\ \E j \in DOMAIN disk.meta.folders : disk.meta.folders[j].records = <<>>)
          => (archive.status = "err" /\ Map = EmptyMap)
    /\ (OpenedFamily("C") /\ disk.meta.file_type = "GNRL" /\ disk.meta.file_count = 0)
          => (archive.status = "err" /\ Map = EmptyMap)
    /\ (OpenedFamily("A") /\ disk.meta.file_count = 0)
          => (archive.status = "ok" /\ Map = EmptyMap)

C28_Witness ==
    /\ OpenedFamily("B")
    /\ Len(disk.meta.folders) = 2
    /\ disk.meta.folders[1].records # <<>>
    /\ disk.meta.folders[2].records = <<>>
    /\ VersionParser(disk.meta.version).some
    /\ HasBit(disk.meta.archive_flags, INCLUDE_FILE_NAMES)
    /\ archive.status = "err"
    /\ archive.error = "Failed to read folder records"
C28_WitnessFamilyC ==
    /\ OpenedFamily("C") /\ disk.meta.file_type = "GNRL" /\ disk.meta.file_count = 0
    /\ archive.status = "err"
C28_WitnessFamilyA ==
    /\ OpenedFamily("A") /\ disk.meta.file_count = 0 /\ disk.meta.name_block # <<>>
    /\ archive.status = "ok"

\* Family A as its header has it: the position that record offsets count from
MWHeaderDataOffset ==
    disk.meta.hash_offset + (8 * disk.meta.file_count) + MW_SERIALIZED_HEADER_LEN
\* the sum of that position and the record's 32-bit offset has 33 bits
MWSumLeaves32Bits(r) ==
    r.offset_bit31 = 1 /\ MWHeaderDataOffset > U31_MAX - r.offset

\* C29: Family A arithmetic never wraps: a header whose hash_offset is below
\* 12 * file_count is rejected with a parse error; when the absolute offset
\* of a paired record does not fit 32 bits the parse fails; and every stored
\* offset is the exact sum, never the sum reduced modulo 2^32
C29_FamilyAArithmeticNeverWraps ==
    /\ (OpenedFamily("A") /\ disk.meta.hash_offset < 12 * disk.meta.file_count)
          => archive.status = "err"
    /\ (OpenedFamily("A")
          /\ disk.meta.hash_offset >= 12 * disk.meta.file_count
          /\ \E i \in 1..Min(Len(disk.meta.records), Len(DecodedNames)) :
                MWSumLeaves32Bits(disk.meta.records[i]))
          => archive.status # "ok"
    /\ (IsFamilyA /\ disk.meta.family = "A") =>
          \A q \in DOMAIN Map :
             /\ ~MWSumLeaves32Bits(MWRawRecordOf(q))
             /\ Map[q].offset = MWHeaderDataOffset + MWRawRecordOf(q).offset

\* the record with bit 31 of its size field flipped
FlipBit31(raw) == [raw EXCEPT !.size.bit31 = 1 - @]

\* C30: the size of a Family B entry is the low 30 bits of the record's size
\* field; bit 30 alone, with the archive flag, decides whether the entry is
\* compressed; the record with bit 31 flipped yields the same entry; and an
\* extraction that reads the entry reads exactly the stored size from the
\* stored offset
C30_SizeIsTheLow30Bits ==
    /\ (IsFamilyB /\ disk.meta.family = "B") =>
          \A q \in DOMAIN Map :
             /\ Map[q].size = RawRecordOf(q).size.low
             /\ Compressed(Map[q])
                   = (HasBit(disk.meta.archive_flags, COMPRESSED_ARCHIVE)
                        # (RawRecordOf(q).size.bit30 = 1))
             /\ Map[q] = OBBsaFile(archive.header, OBFileRecord(FlipBit31(RawRecordOf(q))))
    /\ (IsFamilyB /\ disk.meta.family = "B" /\ Found) =>
          /\ ret.out.reads = 1
          /\ ret.out.status # "err" =>
                ret.out.pos = RawRecordOf(ret.key).offset + RawRecordOf(ret.key).size.low
          /\ ret.out.status = "err" =>
                RawRecordOf(ret.key).offset + RawRecordOf(ret.key).size.low > DiskLen

C30_Witness ==
    /\ IsFamilyB
    /\ Found
    /\ RawRecordOf(ret.key).size = [bit31 |-> 1, bit30 |-> 0, low |-> 3]
    /\ Entry.size = 3
    /\ ~Compressed(Entry)
    /\ ~Entry.has_name
    /\ ret.out.status = "ok"
    /\ Len(ret.out.bytes) = 3
====
